---------------------------- MODULE Spec2Model ----------------------------
(***************************************************************************)
(* godepgraph: the import-graph walk (processPackage), the filter policy   *)
(* (isIgnored) and the renderer (main) of the path-based-id version of the *)
(* program.  Strings are sequences of one-character strings so that        *)
(* strings.HasPrefix, strings.Split, strings.Join, strings.ToLower and     *)
(* strings.TrimSpace are computed character by character.                  *)
(***************************************************************************)
EXTENDS Naturals, Sequences, FiniteSets

VARIABLES
    args,             \* flag.Args(): the positional arguments
    ignoreStdlib,     \* -s
    ignorePrefixes,   \* -p (raw flag value)
    ignorePackages,   \* -i (raw flag value)
    includePackages,  \* -n (raw flag value)
    filterByBasePath, \* -b
    subgraph,         \* -subgraph
    networkSubgraphs, \* -network-subgraphs
    ignored,          \* map[string]bool, as the set of its keys
    ignoredPrefixes,  \* []string
    includedPackages, \* []string
    basePath,         \* string
    pkgs,             \* map[string]*build.Package
    networkPackages,  \* map[string]string
    stack,            \* the activations of processPackage, innermost last
    todo,             \* keys the running range loop has not visited yet
    out,              \* standard output, one element per printed line
    pc                \* position in main

vars == <<args, ignoreStdlib, ignorePrefixes, ignorePackages, includePackages,
          filterByBasePath, subgraph, networkSubgraphs, ignored,
          ignoredPrefixes, includedPackages, basePath, pkgs, networkPackages,
          stack, todo, out, pc>>

flagVars == <<args, ignoreStdlib, ignorePrefixes, ignorePackages,
              includePackages, filterByBasePath, subgraph, networkSubgraphs>>

policyVars == <<ignored, ignoredPrefixes, includedPackages>>

-----------------------------------------------------------------------------
(* package strings *)

Range(s) == {s[i] : i \in 1..Len(s)}

HasPrefix(s, prefix) ==
    Len(prefix) <= Len(s) /\ SubSeq(s, 1, Len(prefix)) = prefix

RECURSIVE Split(_, _)
Split(s, sep) ==
    IF \A i \in 1..Len(s) : s[i] # sep
    THEN <<s>>
    ELSE LET i == CHOOSE k \in 1..Len(s) :
                      s[k] = sep /\ \A j \in 1..(k - 1) : s[j] # sep
         IN  <<SubSeq(s, 1, i - 1)>> \o Split(SubSeq(s, i + 1, Len(s)), sep)

RECURSIVE Join(_, _)
Join(elems, sep) ==
    IF elems = <<>> THEN <<>>
    ELSE IF Len(elems) = 1 THEN elems[1]
    ELSE elems[1] \o <<sep>> \o Join(Tail(elems), sep)

ToLowerRune(c) ==
    CASE c = "A" -> "a"
      [] c = "C" -> "c"
      [] c = "F" -> "f"
      [] c = "N" -> "n"
      [] c = "V" -> "v"
      [] c = "X" -> "x"
      [] OTHER -> c

ToLower(s) == [i \in 1..Len(s) |-> ToLowerRune(s[i])]

RECURSIVE TrimSpace(_)
TrimSpace(s) ==
    IF s = <<>> THEN s
    ELSE IF s[1] = " " THEN TrimSpace(Tail(s))
    ELSE IF s[Len(s)] = " " THEN TrimSpace(SubSeq(s, 1, Len(s) - 1))
    ELSE s

-----------------------------------------------------------------------------
(* The metadata provider, build.Import(pkgName, cwd, 0): an import graph   *)
(* on disk.  A requested name resolves to the package's canonical          *)
(* ImportPath, which differs from the name for a vendored package; a name  *)
(* that names no package is an error.                                      *)

p_ar == <<"a", "/", "r">>
p_r  == <<"r">>
p_ab == <<"a", "/", "b">>
p_av == <<"a", "/", "v">>
p_nX == <<"n", "/", "X">>
p_f  == <<"f">>
p_g  == <<"g">>
p_aq == <<"a", "/", "q">>
p_ap == <<"a", "/", "p">>
n_v  == <<"v">>
n_q  == <<"q">>
n_p  == <<"p">>
n_C  == <<"C">>
n_zz == <<"z", "z">>

Package(path, goroot, cgo, imports) ==
    [ImportPath |-> path, Goroot |-> goroot, CgoFiles |-> cgo,
     Imports |-> imports]

Disk ==
    { Package(p_ar, FALSE, 1, <<n_C, p_ab, p_f, p_nX>>),
      Package(p_r,  FALSE, 0, <<p_ab>>),
      Package(p_ab, FALSE, 0, <<n_v>>),
      Package(p_av, FALSE, 0, <<p_ab>>),
      Package(p_nX, FALSE, 0, <<p_f, p_g>>),
      Package(p_f,  TRUE,  0, <<p_g>>),
      Package(p_g,  TRUE,  0, <<>>),
      Package(p_aq, FALSE, 0, <<n_p>>),
      Package(p_ap, FALSE, 0, <<n_q>>) }

Paths == {d.ImportPath : d \in Disk}

Vendored == {<<n_v, p_av>>, <<n_q, p_aq>>, <<n_p, p_ap>>}

Names == Paths \cup {v[1] : v \in Vendored} \cup {n_C, n_zz}

ImportFails(pkgName) ==
    pkgName \notin Paths /\ \A v \in Vendored : v[1] # pkgName

Canonical(pkgName) ==
    IF pkgName \in Paths THEN pkgName
    ELSE (CHOOSE v \in Vendored : v[1] = pkgName)[2]

Import(pkgName) == CHOOSE d \in Disk : d.ImportPath = Canonical(pkgName)

-----------------------------------------------------------------------------
(* The command lines *)

RootArgs == {p_ar, p_r, p_nX, n_q, n_zz}

ArgLists == {<<>>} \cup {<<r>> : r \in RootArgs}

PrefixFlags == {<<>>, <<" ", "N">>}

IgnoreFlags == {<<>>, <<"a", "/", "v", ",", " ", "n", "/", "X">>}

IncludeFlags == {<<>>, <<"n", ",", "F", ",", "a", "/", "V">>}

-----------------------------------------------------------------------------
(* Filter policy *)

sanitizeCSV(csv) ==
    LET output == Split(csv, ",")
    IN  [i \in 1..Len(output) |-> ToLower(TrimSpace(output[i]))]

hasPrefixes(s, prefixes) ==
    \E i \in 1..Len(prefixes) : HasPrefix(s, prefixes[i])

isNotOfBasepath(importPath, base) ==
    filterByBasePath /\ ~HasPrefix(importPath, base)

(* the exact-ignore set tested ahead of the always-include override *)
isIgnored_exactFirst(pkg) ==
    \/ pkg.ImportPath \in ignored
    \/ /\ ~hasPrefixes(pkg.ImportPath, includedPackages)
       /\ \/ (pkg.Goroot /\ ignoreStdlib)
          \/ hasPrefixes(pkg.ImportPath, ignoredPrefixes)
          \/ isNotOfBasepath(pkg.ImportPath, basePath)

isIgnored(pkg) ==
    /\ ~hasPrefixes(pkg.ImportPath, includedPackages)
    /\ \/ pkg.ImportPath \in ignored
       \/ (pkg.Goroot /\ ignoreStdlib)
       \/ hasPrefixes(pkg.ImportPath, ignoredPrefixes)
       \/ isNotOfBasepath(pkg.ImportPath, basePath)

-----------------------------------------------------------------------------

Init ==
    /\ args \in ArgLists
    /\ ignoreStdlib \in BOOLEAN
    /\ ignorePrefixes \in PrefixFlags
    /\ ignorePackages \in IgnoreFlags
    /\ includePackages \in IncludeFlags
    /\ filterByBasePath \in BOOLEAN
    /\ subgraph \in BOOLEAN
    /\ networkSubgraphs \in BOOLEAN
    /\ ignored = {n_C}
    /\ ignoredPrefixes = <<>>
    /\ includedPackages = <<>>
    /\ basePath = <<>>
    /\ pkgs = <<>>
    /\ networkPackages = <<>>
    /\ stack = <<>>
    /\ todo = {}
    /\ out = <<>>
    /\ pc = "main"

(* main, up to the call of processPackage(cwd, args[0]) *)
Frame(pkgName) ==
    [pkgName |-> pkgName, i |-> 0, seen |-> {}, base |-> <<>>]

main_Usage ==
    /\ pc = "main"
    /\ Len(args) # 1
    /\ pc' = "fatal"
    /\ UNCHANGED <<flagVars, policyVars, basePath, pkgs, networkPackages,
                   stack, todo, out>>

main_Configure ==
    /\ pc = "main"
    /\ Len(args) = 1
    /\ ignoredPrefixes' = IF ignorePrefixes # <<>>
                          THEN sanitizeCSV(ignorePrefixes) ELSE ignoredPrefixes
    /\ ignored' = IF ignorePackages # <<>>
                  THEN ignored \cup Range(sanitizeCSV(ignorePackages))
                  ELSE ignored
    /\ includedPackages' = IF includePackages # <<>>
                           THEN sanitizeCSV(includePackages)
                           ELSE includedPackages
    /\ stack' = <<Frame(args[1])>>
    /\ pc' = "build"
    /\ UNCHANGED <<flagVars, basePath, pkgs, networkPackages, todo, out>>


-----------------------------------------------------------------------------
(* processPackage.  Each activation is a frame of stack; i = 0 before the  *)
(* body has run, and i >= 1 is the position of the range loop over         *)
(* pkg.Imports.  seen and base record the keys of pkgs and the basePath    *)
(* the activation left behind when it reached its loop: a nested           *)
(* activation for the same pkgName that reaches its loop with the same     *)
(* pkgs and basePath repeats the outer one step for step, so the           *)
(* recursion never returns (pc = "diverged").                              *)

Top == stack[Len(stack)]

Pop == SubSeq(stack, 1, Len(stack) - 1)

SetTop(f) == [stack EXCEPT ![Len(stack)] = f]

(* return nil: back in the caller's loop, or in main after the root call *)
Return ==
    /\ stack' = Pop
    /\ pc' = IF Len(stack) = 1 THEN "render" ELSE "build"

parentDir(importPath) ==
    LET basePathSplit == Split(importPath, "/")
    IN  Join(SubSeq(basePathSplit, 1, Len(basePathSplit) - 1), "/")

inferBasePath(pkg) ==
    IF basePath = <<>> THEN parentDir(pkg.ImportPath) ELSE basePath

(* the insertion moved below the standard-library return *)
store_afterGorootReturn(pkg) ==
    IF pkg.Goroot THEN pkgs
    ELSE [k \in DOMAIN pkgs \cup {pkg.ImportPath} |->
             IF k = pkg.ImportPath THEN pkg ELSE pkgs[k]]

store(pkg) ==
    [k \in DOMAIN pkgs \cup {pkg.ImportPath} |->
        IF k = pkg.ImportPath THEN pkg ELSE pkgs[k]]

Repeats(pkgName, keys, base) ==
    \E k \in 1..(Len(stack) - 1) :
        /\ stack[k].pkgName = pkgName
        /\ stack[k].seen = keys
        /\ stack[k].base = base

(* if ignored[pkgName] { return nil } *)
processPackage_ignoredName ==
    /\ pc = "build"
    /\ Top.i = 0
    /\ Top.pkgName \in ignored
    /\ Return
    /\ UNCHANGED <<flagVars, policyVars, basePath, pkgs, networkPackages,
                   todo, out>>

(* build.Import fails: the error is returned through every caller and main *)
(* ends in log.Fatal                                                       *)
processPackage_importError ==
    /\ pc = "build"
    /\ Top.i = 0
    /\ Top.pkgName \notin ignored
    /\ ImportFails(Top.pkgName)
    /\ stack' = <<>>
    /\ pc' = "fatal"
    /\ UNCHANGED <<flagVars, policyVars, basePath, pkgs, networkPackages,
                   todo, out>>

(* if isIgnored(pkg) { return nil } *)
processPackage_isIgnored ==
    /\ pc = "build"
    /\ Top.i = 0
    /\ Top.pkgName \notin ignored
    /\ ~ImportFails(Top.pkgName)
    /\ isIgnored(Import(Top.pkgName))
    /\ Return
    /\ UNCHANGED <<flagVars, policyVars, basePath, pkgs, networkPackages,
                   todo, out>>

(* the base path is inferred, the package is stored, and the walk stops at *)
(* a package of the standard library or goes on to the loop                *)
processPackage_store ==
    /\ pc = "build"
    /\ Top.i = 0
    /\ Top.pkgName \notin ignored
    /\ ~ImportFails(Top.pkgName)
    /\ LET pkg == Import(Top.pkgName)
       IN  /\ ~isIgnored(pkg)
           /\ basePath' = inferBasePath(pkg)
           /\ pkgs' = store(pkg)
           /\ IF pkg.Goroot
              THEN Return
              ELSE IF Repeats(Top.pkgName, DOMAIN pkgs', basePath')
              THEN /\ pc' = "diverged"
                   /\ stack' = stack
              ELSE /\ pc' = "build"
                   /\ stack' = SetTop([Top EXCEPT !.i = 1,
                                                  !.seen = DOMAIN pkgs',
                                                  !.base = basePath'])
    /\ UNCHANGED <<flagVars, policyVars, networkPackages, todo, out>>

(* one iteration of: for _, imp := range pkg.Imports *)
processPackage_loop ==
    /\ pc = "build"
    /\ Top.i >= 1
    /\ Top.i <= Len(Import(Top.pkgName).Imports)
    /\ LET imp == Import(Top.pkgName).Imports[Top.i]
           next == SetTop([Top EXCEPT !.i = Top.i + 1])
       IN  stack' = IF imp \in DOMAIN pkgs
                    THEN next
                    ELSE Append(next, Frame(imp))
    /\ UNCHANGED <<flagVars, policyVars, basePath, pkgs, networkPackages,
                   todo, out, pc>>

(* the loop is over: return nil *)
processPackage_return ==
    /\ pc = "build"
    /\ Top.i >= 1
    /\ Top.i > Len(Import(Top.pkgName).Imports)
    /\ Return
    /\ UNCHANGED <<flagVars, policyVars, basePath, pkgs, networkPackages,
                   todo, out>>

-----------------------------------------------------------------------------
(* The renderer: the rest of main *)

(* an id that depends on how much has been printed, as a counter does *)
ns_counter(name) == basePath \o <<":">> \o name \o [j \in 1..Len(out) |-> "'"]

ns(name) == basePath \o <<":">> \o name

printSubgraphHead(name) ==
    << <<"subgraph cluster", name>>, <<"style=filled;">>,
       <<"color=lightgrey;">>, <<"label=", name>> >>

printNode(name, color) == <<"node", ns(name), name, color>>

printEdge(source, dest) == <<"edge", ns(source), ns(dest)>>

nodeColor(pkg) ==
    IF pkg.Goroot THEN "palegreen"
    ELSE IF pkg.CgoFiles > 0 THEN "darkgoldenrod1"
    ELSE IF hasPrefixes(pkg.ImportPath, includedPackages) THEN "violet"
    ELSE "paleturquoise"

(* the edges of one package, in the order of pkg.Imports *)
rendersEdge(imp) == imp \in DOMAIN pkgs /\ ~isIgnored(pkgs[imp])

printEdges(pkgName, pkg) ==
    LET kept == SelectSeq(pkg.Imports, rendersEdge)
    IN  [j \in 1..Len(kept) |-> printEdge(pkgName, kept[j])]

(* the test without the base-path condition *)
isNetworkPackage_anyBase(pkg) ==
    /\ networkSubgraphs
    /\ hasPrefixes(pkg.ImportPath, includedPackages)

isNetworkPackage(pkg) ==
    /\ networkSubgraphs
    /\ hasPrefixes(pkg.ImportPath, includedPackages)
    /\ ~HasPrefix(pkg.ImportPath, basePath)

lastSegment(pkgName) ==
    LET nameSplit == Split(pkgName, "/") IN nameSplit[Len(nameSplit)]

(* the imports of a standard-library package not rendered *)
packageLines_skipGoroot(pkgName) ==
    IF isIgnored(pkgs[pkgName]) THEN <<>>
    ELSE IF pkgs[pkgName].Goroot
    THEN <<printNode(pkgName, nodeColor(pkgs[pkgName]))>>
    ELSE <<printNode(pkgName, nodeColor(pkgs[pkgName]))>>
            \o printEdges(pkgName, pkgs[pkgName])

(* what one iteration of the main loop prints for pkgName *)
packageLines(pkgName) ==
    IF isIgnored(pkgs[pkgName]) THEN <<>>
    ELSE <<printNode(pkgName, nodeColor(pkgs[pkgName]))>>
            \o printEdges(pkgName, pkgs[pkgName])

(* what one iteration of the second loop prints for pkgName *)
networkLines(pkgName, pkgId) ==
    printSubgraphHead(lastSegment(pkgName))
        \o <<printNode(lastSegment(pkgName), "paleturquoise"), <<"}">>,
             printEdge(pkgId, lastSegment(pkgName))>>

main_header ==
    /\ pc = "render"
    /\ out' = out \o << <<"digraph godep {">> >>
                  \o (IF subgraph /\ basePath # <<>>
                      THEN printSubgraphHead(basePath) ELSE <<>>)
    /\ todo' = DOMAIN pkgs
    /\ pc' = "packages"
    /\ UNCHANGED <<flagVars, policyVars, basePath, pkgs, networkPackages,
                   stack>>

(* one iteration of: for pkgName, pkg := range pkgs; the map's iteration   *)
(* order is any order                                                      *)
main_package ==
    /\ pc = "packages"
    /\ \E pkgName \in todo :
        /\ todo' = todo \ {pkgName}
        /\ out' = out \o packageLines(pkgName)
        /\ networkPackages' =
              IF ~isIgnored(pkgs[pkgName]) /\ isNetworkPackage(pkgs[pkgName])
              THEN [k \in DOMAIN networkPackages \cup {pkgName} |->
                       IF k = pkgName THEN pkgName ELSE networkPackages[k]]
              ELSE networkPackages
    /\ UNCHANGED <<flagVars, policyVars, basePath, pkgs, stack, pc>>

main_closeSubgraph ==
    /\ pc = "packages"
    /\ todo = {}
    /\ out' = out \o (IF subgraph /\ basePath # <<>>
                      THEN << <<"}">> >> ELSE <<>>)
    /\ todo' = DOMAIN networkPackages
    /\ pc' = "network"
    /\ UNCHANGED <<flagVars, policyVars, basePath, pkgs, networkPackages,
                   stack>>

(* one iteration of: for pkgName, pkgId := range networkPackages *)
main_network ==
    /\ pc = "network"
    /\ \E pkgName \in todo :
        /\ todo' = todo \ {pkgName}
        /\ out' = out \o networkLines(pkgName, networkPackages[pkgName])
    /\ UNCHANGED <<flagVars, policyVars, basePath, pkgs, networkPackages,
                   stack, pc>>

main_footer ==
    /\ pc = "network"
    /\ todo = {}
    /\ out' = Append(out, <<"}">>)
    /\ pc' = "done"
    /\ UNCHANGED <<flagVars, policyVars, basePath, pkgs, networkPackages,
                   stack, todo>>

Next ==
    \/ main_Usage
    \/ main_Configure
    \/ processPackage_ignoredName
    \/ processPackage_importError
    \/ processPackage_isIgnored
    \/ processPackage_store
    \/ processPackage_loop
    \/ processPackage_return
    \/ main_header
    \/ main_package
    \/ main_closeSubgraph
    \/ main_network
    \/ main_footer

Spec == Init /\ [][Next]_vars

-----------------------------------------------------------------------------
(* Properties *)

Built == pc \in {"render", "packages", "network", "done"}

MainLoopOver == (pc = "packages" /\ todo = {}) \/ pc \in {"network", "done"}

rootName == args[1]

Printed(line) == \E i \in 1..Len(out) : out[i] = line

Count(lines, line) == Cardinality({i \in 1..Len(lines) : lines[i] = line})

(* The packages the walk can reach from the root through import lists,     *)
(* never walking on from a package of the standard library.  With          *)
(* filtered, a name is followed only if processPackage does not skip it:   *)
(* the name is not in the exact-ignore set and isIgnored is false of the   *)
(* package it resolves to.                                                 *)
Enters(name, filtered) ==
    /\ ~ImportFails(name)
    /\ filtered => (name \notin ignored /\ ~isIgnored(Import(name)))

ImportedFrom(S) ==
    UNION {Range(Import(c).Imports) : c \in {d \in S : ~Import(d).Goroot}}

RECURSIVE Walk(_, _)
Walk(S, filtered) ==
    LET more == S \cup {Canonical(n) :
                          n \in {m \in ImportedFrom(S) : Enters(m, filtered)}}
    IN  IF more = S THEN S ELSE Walk(more, filtered)

Reachable(filtered) ==
    IF Enters(rootName, filtered)
    THEN Walk({Canonical(rootName)}, filtered) ELSE {}

(* C1, as claimed: when the build phase has ended without an error, every  *)
(* package reachable from the root through import lists, not passing       *)
(* through a standard-library package, is a key of pkgs under its          *)
(* canonical import path, whatever the filters are.                        *)
C1_EveryReachableStored ==
    Built => /\ Reachable(FALSE) \subseteq DOMAIN pkgs
             /\ \A k \in DOMAIN pkgs : pkgs[k].ImportPath = k

(* C1, amended: when the build phase has ended without an error, every     *)
(* package reachable from the root along import lists on which no package  *)
(* is skipped (its requested name in the exact-ignore set, or isIgnored    *)
(* true of it) and none before the last is a standard-library package, is  *)
(* a key of pkgs, and every key of pkgs is the canonical import path of    *)
(* the one package stored under it.                                        *)
C1_EveryAdmittedStored ==
    Built => /\ Reachable(TRUE) \subseteq DOMAIN pkgs
             /\ \A k \in DOMAIN pkgs : pkgs[k].ImportPath = k

(* C1 witness: a finished build from a/r that stored the vendored a/v and  *)
(* the standard-library f, skipped n/X by a filter, and did not walk on    *)
(* from f to g.                                                            *)
C1_Witness ==
    /\ pc = "done"
    /\ rootName = p_ar
    /\ {p_av, p_f} \subseteq Reachable(TRUE)
    /\ p_nX \notin DOMAIN pkgs
    /\ p_g \notin DOMAIN pkgs
    /\ p_g \in Range(pkgs[p_f].Imports)

(* C2: isIgnored is false of every package whose import path starts with   *)
(* an always-include prefix, in every policy state the run goes through.   *)
C2_IncludeOverrides ==
    \A d \in Disk :
        hasPrefixes(d.ImportPath, includedPackages) => ~isIgnored(d)

(* C2 witness: always-included packages that every other rule matches:     *)
(* a/v in the exact-ignore set, f of the standard library with -s, and     *)
(* n/X under an ignored prefix and outside the base path with -b; all      *)
(* three were tested by processPackage and stored.                         *)
C2_Witness ==
    /\ Built
    /\ {p_av, p_f, p_nX} \subseteq DOMAIN pkgs
    /\ \A k \in {p_av, p_f, p_nX} : hasPrefixes(k, includedPackages)
    /\ p_av \in ignored
    /\ ignoreStdlib
    /\ hasPrefixes(p_nX, ignoredPrefixes)
    /\ isNotOfBasepath(p_nX, basePath)

(* C3, as claimed: no key of pkgs is in the exact-ignore set. *)
C3_NoIgnoredKey == \A k \in DOMAIN pkgs : k \notin ignored

(* C4, as claimed: in the rendered output the edge declaration P -> Q is   *)
(* present iff P lists Q in its imports, isIgnored is false of P and of    *)
(* the package stored under Q, and Q is a key of pkgs; for every key P of  *)
(* pkgs and every import string Q.                                         *)
EdgeIff ==
    \A P \in DOMAIN pkgs : \A Q \in Names :
        Printed(printEdge(P, Q)) <=>
            /\ Q \in Range(pkgs[P].Imports)
            /\ ~isIgnored(pkgs[P])
            /\ Q \in DOMAIN pkgs
            /\ ~isIgnored(pkgs[Q])

IgnoreListed(path) ==
    /\ ignorePackages # <<>>
    /\ \E e \in Range(Split(ignorePackages, ",")) :
           ToLower(TrimSpace(e)) = ToLower(path)

C5_IgnoreListCaseInsensitive ==
    \A path \in Paths :
        IgnoreListed(path) =>
            \A i \in 1..Len(out) :
                /\ out[i][1] = "node" => out[i][3] # path
                /\ out[i][1] = "edge" =>
                       (out[i][2] # ns(path) /\ out[i][3] # ns(path))

(* The run whose two range loops visit the keys in one fixed order *)
RECURSIVE mainLoopLines(_)
mainLoopLines(keys) ==
    IF keys = {} THEN <<>>
    ELSE LET k == CHOOSE x \in keys : TRUE
         IN  packageLines(k) \o mainLoopLines(keys \ {k})

RECURSIVE networkLoopLines(_)
networkLoopLines(keys) ==
    IF keys = {} THEN <<>>
    ELSE LET k == CHOOSE x \in keys : TRUE
         IN  networkLines(k, networkPackages[k])
                \o networkLoopLines(keys \ {k})

OtherRun ==
    << <<"digraph godep {">> >>
        \o (IF subgraph /\ basePath # <<>>
            THEN printSubgraphHead(basePath) ELSE <<>>)
        \o mainLoopLines(DOMAIN pkgs)
        \o (IF subgraph /\ basePath # <<>> THEN << <<"}">> >> ELSE <<>>)
        \o networkLoopLines(DOMAIN networkPackages)
        \o << <<"}">> >>

(* C6, as claimed: the finished output is, line for line, the output of    *)
(* the run on the same inputs whose loops visit the maps in another order. *)
C6_ByteIdentical == pc = "done" => out = OtherRun

(* C6, amended: the finished output holds the same lines, each as often,   *)
(* as the output of any other run on the same inputs, and every package's  *)
(* node declaration is followed at once by its edges in import order; the  *)
(* order of the packages, and of the network subgraphs, may differ.        *)
C6_SameDeclarations ==
    pc = "done" =>
        LET other == OtherRun
        IN  /\ Len(out) = Len(other)
            /\ \A line \in Range(out) : Count(out, line) = Count(other, line)
            /\ \A k \in DOMAIN pkgs :
                   LET lines == packageLines(k)
                   IN  \E i \in 0..Len(out) :
                           SubSeq(out, i + 1, i + Len(lines)) = lines

(* C6 witness: a finished run of at least three rendered packages and two  *)
(* network subgraphs whose output is not in the order of the other run.    *)
C6_Witness ==
    /\ pc = "done"
    /\ out # OtherRun
    /\ Cardinality({k \in DOMAIN pkgs : ~isIgnored(pkgs[k])}) >= 3
    /\ Cardinality(DOMAIN networkPackages) >= 2

(* C7, as claimed: the build phase terminates; the recursion never comes   *)
(* back to a package, with pkgs and basePath as they were, while that      *)
(* package's own activation is still open.                                 *)
C7_BuildTerminates == pc # "diverged"

(* C8, as claimed: with -b, once the root is stored the base path is the   *)
(* root's canonical import path without its last segment, from then on.    *)
C8_BasePathOfRoot ==
    (filterByBasePath /\ Len(args) = 1 /\ ~ImportFails(rootName)
        /\ Canonical(rootName) \in DOMAIN pkgs)
        => basePath = parentDir(Canonical(rootName))

(* C9: with -network-subgraphs, after the main loop and the closing of the *)
(* base-path wrapper the output holds one standalone subgraph (head,       *)
(* synthetic node named after the last path segment, closing brace, edge   *)
(* from the package's node to the synthetic node) for exactly the keys of  *)
(* pkgs that are not ignored, match an always-include prefix and do not    *)
(* start with the base path; without the option it holds none; and no      *)
(* other subgraph head than the wrapper's is printed before them.          *)
NetworkSet ==
    {k \in DOMAIN pkgs :
        /\ networkSubgraphs
        /\ ~isIgnored(pkgs[k])
        /\ hasPrefixes(k, includedPackages)
        /\ ~HasPrefix(k, basePath)}

WrapperLines ==
    IF subgraph /\ basePath # <<>> THEN Len(printSubgraphHead(basePath)) ELSE 0

BlockLines == Len(printSubgraphHead(<<>>)) + 3

isSubgraphHead(line) == line[1] = "subgraph cluster"

C10_StoredNeverIgnored ==
    /\ Built => \A k \in DOMAIN pkgs : ~isIgnored(pkgs[k])
    /\ (pc = "packages" /\ todo = {}) =>
           \A k \in DOMAIN pkgs :
               Cardinality({i \in 1..Len(out) :
                               out[i][1] = "node" /\ out[i][3] = k}) = 1

=============================================================================
